---- MODULE Spec2Model ----
(***************************************************************************)
(* A model of allib's dependency injection core (src/allib/di.py) and of   *)
(* the SQLAlchemy plugin that uses it (src/allib/web/plugins/sqla.py).     *)
(*                                                                         *)
(* The Injector's two dictionaries, the objects it builds and the __di__   *)
(* metadata dictionaries are the state.  Injector.get and the helpers it   *)
(* calls recursively are a stack machine: one frame per Python call, one   *)
(* action per step between two nested calls, labelled with source lines.   *)
(***************************************************************************)
EXTENDS Integers, Sequences, FiniteSets, TLC

\* Number of top-level calls (register_*, get, inject) a run makes.
MaxOps == 4

\* The calls a client of the persistence plugin makes.
MaxPluginOps == 5

\* The calls two threads and their parent make on a shared Injector.
MaxRaceOps == 4

\* The depth of the call stack at which the interpreter gives up
\* (RecursionError); deeper than any resolution without a cycle here.
MaxDepth == 12

(***************************************************************************)
(* Python values the Injector is handed.  k is what inspect/callable see,  *)
(* n the qualified name of a class or function, o the identity of an       *)
(* instance (for a bound method: of the instance it is bound to).          *)
(***************************************************************************)
Cls(n) == [k |-> "class", n |-> n, o |-> 0]
Fn(n) == [k |-> "func", n |-> n, o |-> 0]
Method(o, n) == [k |-> "method", n |-> n, o |-> o]
Obj(o) == [k |-> "obj", n |-> "", o |-> o]
Val(n) == [k |-> "value", n |-> n, o |-> 0]
NoThing == [k |-> "none", n |-> "", o |-> 0]

\* inspect.isclass(thing)
IsClass(t) == t.k = "class"

\* callable(thing): classes, functions and bound methods; the instances and
\* plain values of the programs below define no __call__
Callable(t) == t.k \in {"class", "func", "method"}

EmptyMap == [x \in {} |-> x]

(***************************************************************************)
(* The programs under analysis: the classes and functions that exist when  *)
(* the Injector is used.  A, B, Ctl, Mod and the module-level functions    *)
(* are client code in the style of the docstrings; SqlAlchemyPlugin and    *)
(* SqlAlchemyMixin are the plugin's.                                       *)
(***************************************************************************)
ClassNames ==
    {"A", "B", "Ctl", "Mod", "Config", "Engine", "Session",
     "SqlAlchemyPlugin", "SqlAlchemyMixin", "View", "View2", "Widget",
     "P", "Q", "Loop", "Dup"}

FuncNames ==
    {"Mod.helper", "Mod.provide_a", "Mod.provide_b",
     "SqlAlchemyPlugin.provide_db_engine", "SqlAlchemyPlugin.provide_session",
     "provide_a_s", "provide_a_ns", "provide_b_s", "plainfn", "Ctl.__init__",
     "untyped", "Widget.__init__", "P.__init__", "Q.__init__",
     "Dup.zeta", "Dup.alpha", "provide_b_w", "provide_b_u"}

\* class SqlAlchemyPlugin(di.Plugin): a Plugin is a specialization of Module
PluginBases == <<"Plugin", "Module">>

\* The method resolution order of a class, without object.
MRO(c) ==
    CASE c = "Mod" -> <<"Mod", "Module">>
      [] c = "Dup" -> <<"Dup", "Module">>
      [] c = "SqlAlchemyPlugin" -> <<"SqlAlchemyPlugin">> \o PluginBases
      [] c = "Ctl" -> <<"Ctl", "SqlAlchemyMixin">>
      [] c = "View" -> <<"View", "SqlAlchemyMixin">>
      [] c = "View2" -> <<"View2", "SqlAlchemyMixin">>
      [] OTHER -> <<c>>

\* The __init__ a class defines itself ("" when it defines none).
OwnInit(c) ==
    CASE c = "Ctl" -> "Ctl.__init__"
      [] c = "Widget" -> "Widget.__init__"
      [] c = "P" -> "P.__init__"
      [] c = "Q" -> "Q.__init__"
      [] OTHER -> ""

\* cls.__init__: the first __init__ along the MRO, object.__init__ otherwise.
InitOf(c) ==
    LET own == {i \in 1..Len(MRO(c)) : OwnInit(MRO(c)[i]) # ""}
    IN IF own = {} THEN "object.__init__"
       ELSE OwnInit(MRO(c)[CHOOSE i \in own : \A j \in own : i <= j])

\* The functions a class defines as methods, in the order of the class body.
DefinedMethods(c) ==
    CASE c = "Mod" -> <<"Mod.provide_a", "Mod.provide_b", "Mod.helper">>
      [] c = "Dup" -> <<"Dup.zeta", "Dup.alpha">>
      [] c = "SqlAlchemyPlugin" ->
            <<"SqlAlchemyPlugin.provide_db_engine", "SqlAlchemyPlugin.provide_session">>
      [] OTHER -> <<>>

\* The method names in the order of Python's string comparison.
NameOrder ==
    <<"Dup.alpha", "Dup.zeta", "Mod.helper", "Mod.provide_a", "Mod.provide_b",
      "SqlAlchemyPlugin.provide_db_engine", "SqlAlchemyPlugin.provide_session">>

Rank(n) == CHOOSE i \in 1..Len(NameOrder) : NameOrder[i] = n

\* The members as a client lists them, unsorted.
MethodsUnsorted(c) == DefinedMethods(c)

\* inspect.getmembers: the members sorted by name
MethodsOf(c) == SortSeq(DefinedMethods(c), LAMBDA a, b : Rank(a) < Rank(b))

\* typing.get_type_hints(func): the annotated parameters in declaration
\* order, then the return annotation.  self is not annotated.
Hints(f) ==
    CASE f = "Mod.provide_a" -> << <<"return", Cls("A")>> >>
      [] f = "Mod.provide_b" -> << <<"a", Cls("A")>>, <<"return", Cls("B")>> >>
      [] f = "SqlAlchemyPlugin.provide_db_engine" ->
            << <<"config", Cls("Config")>>, <<"return", Cls("Engine")>> >>
      [] f = "SqlAlchemyPlugin.provide_session" ->
            << <<"engine", Cls("Engine")>>, <<"return", Cls("Session")>> >>
      [] f = "provide_a_s" -> << <<"return", Cls("A")>> >>
      [] f = "provide_a_ns" -> << <<"return", Cls("A")>> >>
      [] f = "provide_b_s" -> << <<"a", Cls("A")>>, <<"return", Cls("B")>> >>
      [] f = "plainfn" -> << <<"a", Cls("A")>> >>
      [] f = "Ctl.__init__" ->
            << <<"a", Cls("A")>>, <<"b", Cls("B")>>, <<"return", Cls("NoneType")>> >>
      [] f = "P.__init__" -> << <<"q", Cls("Q")>> >>
      [] f = "Dup.zeta" -> << <<"return", Cls("A")>> >>
      [] f = "provide_b_w" ->
            << <<"a", Cls("A")>>, <<"w", Cls("Widget")>>, <<"return", Cls("B")>> >>
      [] f = "provide_b_u" -> << <<"a", Cls("A")>>, <<"return", Cls("B")>> >>
      [] f = "Dup.alpha" -> << <<"return", Cls("A")>> >>
      [] f = "Q.__init__" -> << <<"p", Cls("P")>> >>
      [] OTHER -> <<>>

\* The parameters a function leaves without annotation: def untyped(x),
\* Widget.__init__(self, x) and def provide_b_u(a: A, x) -> B.
Unhinted(f) ==
    IF f \in {"untyped", "Widget.__init__", "provide_b_u"} THEN <<"x">> ELSE <<>>

\* The parameters a function declares and its caller has to pass (self is
\* bound already).
Signature(f) ==
    LET h == SelectSeq(Hints(f), LAMBDA e : e[1] # "return")
    IN [k \in 1..Len(h) |-> h[k][1]] \o Unhinted(f)

\* The class of the object a function's body returns.
Returns(f) ==
    CASE f = "Mod.provide_a" -> "A"
      [] f = "Mod.provide_b" -> "B"
      [] f = "SqlAlchemyPlugin.provide_db_engine" -> "Engine"
      [] f = "SqlAlchemyPlugin.provide_session" -> "Session"
      [] f = "provide_a_s" -> "A"
      [] f = "provide_a_ns" -> "A"
      [] f = "provide_b_s" -> "B"
      [] f = "untyped" -> "B"
      [] f = "Dup.zeta" -> "A"
      [] f = "provide_b_w" -> "B"
      [] f = "provide_b_u" -> "B"
      [] f = "Dup.alpha" -> "A"
      [] OTHER -> "object"

(***************************************************************************)
(* __di__ metadata.  A dictionary is a heap value of its own: getattr      *)
(* hands out a reference, so a class that inherits __di__ and a wrapper    *)
(* that copies it see the same dictionary.                                 *)
(***************************************************************************)
NewDict == [keys |-> {}, provides |-> NoThing, singleton |-> FALSE, inject |-> <<>>]

NoDi == [dicts |-> <<>>, ref |-> [n \in ClassNames \cup FuncNames |-> 0]]

\* getattr(obj, '__di__', None) for a class or function name: the own
\* attribute, or for a class the first one along the MRO; 0 when there is none
LookupDi(ref, n) ==
    IF n \in FuncNames THEN ref[n]
    ELSE IF n \notin ClassNames THEN 0
    ELSE LET m == MRO(n)
             has == {i \in 1..Len(m) : m[i] \in ClassNames /\ ref[m[i]] # 0}
         IN IF has = {} THEN 0
            ELSE ref[m[CHOOSE i \in has : \A j \in has : i <= j]]

\* The value of the return annotation (hints['return']).
ReturnHint(f) ==
    LET at == {i \in 1..Len(Hints(f)) : Hints(f)[i][1] = "return"}
    IN IF at = {} THEN NoThing ELSE Hints(f)[CHOOSE i \in at : TRUE][2]

\* obj.__di__ = getattr(obj, '__di__', {}): the dictionary found, or a new one
AttachDi(st, n) ==
    IF LookupDi(st.ref, n) # 0
    THEN [st EXCEPT !.ref[n] = LookupDi(st.ref, n)]
    ELSE [dicts |-> Append(st.dicts, NewDict),
          ref |-> [st.ref EXCEPT ![n] = Len(st.dicts) + 1]]

\* A store that starts the mapping anew.
PutInjectAlone(items, name, type) == << <<name, type>> >>

\* d[name] = type on the 'inject' mapping: an existing name keeps its place
PutInject(items, name, type) ==
    IF \E i \in 1..Len(items) : items[i][1] = name
    THEN [i \in 1..Len(items) |->
            IF items[i][1] = name THEN <<name, type>> ELSE items[i]]
    ELSE Append(items, <<name, type>>)

\* inject_object(obj, var_name, var_type)
inject_object(st, n, name, type) ==
    LET st1 == AttachDi(st, n)
        d == st1.ref[n]
    IN [st1 EXCEPT !.dicts[d].keys = @ \cup {"inject"},
                   !.dicts[d].inject = PutInject(@, name, type)]

\* provider(func, singleton=...): _add_provider_annotations
provider(st, f, singleton) ==
    LET st1 == AttachDi(st, f)
        d == st1.ref[f]
    IN [st1 EXCEPT !.dicts[d].keys = @ \cup {"provides", "singleton"},
                   !.dicts[d].provides = ReturnHint(f),
                   !.dicts[d].singleton = singleton]

\* The decorators of the programs, applied as the definitions are executed.
Decorated ==
    LET s1 == provider(NoDi, "Mod.provide_a", TRUE)
        s2 == provider(s1, "Mod.provide_b", FALSE)
        s3 == provider(s2, "SqlAlchemyPlugin.provide_db_engine", TRUE)
        s4 == provider(s3, "SqlAlchemyPlugin.provide_session", TRUE)
        s5 == provider(s4, "provide_a_s", TRUE)
        s6 == provider(s5, "provide_a_ns", FALSE)
        s7 == provider(s6, "provide_b_s", TRUE)
        s8 == provider(s7, "Dup.zeta", FALSE)
        s9 == provider(s8, "Dup.alpha", TRUE)
        s10 == provider(s9, "provide_b_w", TRUE)
        s11 == provider(s10, "provide_b_u", TRUE)
    IN inject_object(s11, "SqlAlchemyMixin", "session", Cls("Session"))

(***************************************************************************)
(* State.                                                                  *)
(***************************************************************************)
VARIABLES
    scn,        \* the client program that drives the Injector
    factories,  \* Injector.factories: provided type -> provider
    instances,  \* Injector.instances: type -> cached instance
    heap,       \* the objects built so far; an object's identity is its index
    di,         \* the __di__ dictionaries and who refers to which
    stack,      \* per execution context: the Python call stack, top last
    cur,        \* per execution context: the top-level call in progress
    hist        \* the top-level calls completed so far, with their outcome

vars == <<scn, factories, instances, heap, di, stack, cur, hist>>

Contexts == {1}

\* A module instance and a plugin instance the client built itself.
ClientObjects ==
    << [cls |-> "Mod", by |-> NoThing, kw |-> <<>>, attrs |-> <<>>],
       [cls |-> "SqlAlchemyPlugin", by |-> NoThing, kw |-> <<>>, attrs |-> <<>>] >>

ModInst == CHOOSE o \in 1..Len(ClientObjects) : ClientObjects[o].cls = "Mod"

PluginInst ==
    CHOOSE o \in 1..Len(ClientObjects) : ClientObjects[o].cls = "SqlAlchemyPlugin"

NoCall ==
    [op |-> "", arg |-> NoThing, name |-> "", type |-> NoThing, ok |-> FALSE,
     err |-> "", val |-> 0, facts |-> EmptyMap, inst |-> EmptyMap, nxt |-> 0,
     dis |-> NoDi]

Call(op, arg, name, type) ==
    [NoCall EXCEPT !.op = op, !.arg = arg, !.name = name, !.type = type,
                   !.facts = factories, !.inst = instances, !.nxt = Len(heap),
                   !.dis = di]

\* The top-level calls each client program makes, in any order and number.
Calls(s) ==
    CASE s = "cache" ->
            { Call("register_module", Obj(ModInst), "", NoThing),
              Call("register_provider", Fn("provide_a_s"), "", NoThing),
              Call("register_provider", Fn("provide_a_ns"), "", NoThing),
              Call("register_provider", Fn("provide_b_s"), "", NoThing),
              Call("get", Cls("A"), "", NoThing),
              Call("get", Cls("B"), "", NoThing) }
      [] s = "dispatch" ->
            { Call("register_module", Obj(ModInst), "", NoThing),
              Call("get", Cls("A"), "", NoThing),
              Call("get", Cls("Ctl"), "", NoThing),
              Call("get", Fn("plainfn"), "", NoThing),
              Call("get", Val("junk"), "", NoThing) }
      [] s = "register" ->
            { Call("register_module", Cls("Mod"), "", NoThing),
              Call("register_module", Cls("A"), "", NoThing),
              Call("register_module", Val("junk"), "", NoThing),
              Call("register_provider", Fn("plainfn"), "", NoThing),
              Call("register_provider", Fn("provide_a_ns"), "", NoThing),
              Call("get", Cls("A"), "", NoThing) }
      [] s = "mixin" ->
            { Call("register_module", Obj(PluginInst), "", NoThing),
              Call("register_provider",
                   Method(PluginInst, "SqlAlchemyPlugin.provide_session"), "", NoThing),
              Call("get", Cls("View"), "", NoThing),
              Call("get", Cls("Session"), "", NoThing),
              Call("inject", Cls("View"), "extra", Cls("A")),
              Call("inject", Val("junk"), "extra", Cls("A")) }
      [] s = "plugin" ->
            { Call("register_module", Obj(PluginInst), "", NoThing),
              Call("register_provider",
                   Method(PluginInst, "SqlAlchemyPlugin.provide_session"), "", NoThing),
              Call("get", Cls("Engine"), "", NoThing),
              Call("get", Cls("Session"), "", NoThing) }
      [] s = "inject" ->
            { Call("inject", Cls("B"), "first", Cls("A")),
              Call("inject", Cls("B"), "second", Cls("Config")),
              Call("inject", Cls("B"), "first", Cls("Config")),
              Call("inject", Fn("untyped"), "x", Cls("A")),
              Call("inject", Cls("Widget"), "x", Cls("A")),
              Call("get", Cls("B"), "", NoThing),
              Call("get", Fn("untyped"), "", NoThing),
              Call("get", Cls("Widget"), "", NoThing) }
      [] s = "race" ->
            { Call("register_provider", Fn("provide_a_s"), "", NoThing),
              Call("get", Cls("A"), "", NoThing) }
      [] s = "cycle" ->
            { Call("get", Cls("P"), "", NoThing),
              Call("get", Cls("Ctl"), "", NoThing),
              Call("inject", Cls("Loop"), "me", Cls("Loop")),
              Call("get", Cls("Loop"), "", NoThing),
              Call("register_provider", Fn("provide_a_s"), "", NoThing) }
      [] s = "dup" ->
            { Call("register_module", Cls("Dup"), "", NoThing),
              Call("register_module", Obj(ModInst), "", NoThing),
              Call("register_provider", Fn("provide_a_ns"), "", NoThing),
              Call("get", Cls("A"), "", NoThing) }
      [] s = "sibling" ->
            { Call("inject", Cls("View"), "extra", Cls("A")),
              Call("get", Cls("View"), "", NoThing),
              Call("get", Cls("View2"), "", NoThing),
              Call("get", Cls("SqlAlchemyMixin"), "", NoThing) }
      [] s = "failing" ->
            { Call("register_provider", Fn("provide_a_s"), "", NoThing),
              Call("register_provider", Fn("provide_b_w"), "", NoThing),
              Call("register_provider", Fn("provide_b_u"), "", NoThing),
              Call("get", Cls("B"), "", NoThing),
              Call("get", Cls("A"), "", NoThing) }
      [] OTHER -> {}

Scenarios ==
    {"cache", "dispatch", "register", "mixin", "plugin", "inject", "cycle", "dup",
     "sibling", "failing"}

\* The number of calls the client of scenario s makes at most.
OpsBound(s) == IF s = "plugin" THEN MaxPluginOps ELSE MaxOps

Init ==
    /\ scn \in Scenarios
    /\ factories = EmptyMap
    /\ instances = EmptyMap
    /\ heap = ClientObjects
    /\ di = Decorated
    /\ stack = [c \in Contexts |-> <<>>]
    /\ cur = [c \in Contexts |-> NoCall]
    /\ hist = <<>>

(***************************************************************************)
(* Reading metadata and objects.                                           *)
(***************************************************************************)
\* getattr(thing, '__di__', None) as a dictionary index; an instance finds
\* its class's, a bound method its function's
DiOf(t) ==
    CASE t.k \in {"class", "func", "method"} -> LookupDi(di.ref, t.n)
      [] t.k = "obj" -> LookupDi(di.ref, heap[t.o].cls)
      [] OTHER -> 0

HasDi(t) == DiOf(t) # 0

DiDict(t) == di.dicts[DiOf(t)]

\* A test that takes every object for a module.
IsAnyObject(t) == t.k = "obj"

\* isinstance(module, Module)
IsModule(t) ==
    /\ t.k = "obj"
    /\ \E i \in 1..Len(MRO(heap[t.o].cls)) : MRO(heap[t.o].cls)[i] = "Module"

\* item[1] for item in inspect.getmembers(module, predicate=inspect.ismethod)
ModuleFuncs(t) ==
    LET ms == MethodsOf(heap[t.o].cls)
    IN [i \in 1..Len(ms) |-> Method(t.o, ms[i])]

NewObject(cls, by, kw) == [cls |-> cls, by |-> by, kw |-> kw, attrs |-> <<>>]

(***************************************************************************)
(* Frames.                                                                 *)
(***************************************************************************)
Frame(fn, pc, thing) ==
    [fn |-> fn, pc |-> pc, thing |-> thing, fact |-> NoThing, ret |-> 0,
     obj |-> 0, kwargs |-> <<>>, todo |-> <<>>]

\* hints = typing.get_type_hints(func); kwargs = {}
GuessFrame(fname) == [Frame("_guess_kwargs", "L151", Fn(fname)) EXCEPT !.todo = Hints(fname)]

Top(c) == stack[c][Len(stack[c])]

At(c, fn, pc) == stack[c] # <<>> /\ Top(c).fn = fn /\ Top(c).pc = pc

Idle == \A c \in DOMAIN stack : stack[c] = <<>>

\* The caller's frame once the call it waits for has returned v (a value) or
\* kw (keyword arguments).
Resume(f, v, kw) ==
    CASE f.fn = "get" /\ f.pc = "L120" -> [f EXCEPT !.ret = v, !.pc = "L121"]
      [] f.fn = "get" /\ f.pc = "L126" -> [f EXCEPT !.ret = v, !.pc = "L126r"]
      [] f.fn = "get" /\ f.pc = "L128" -> [f EXCEPT !.kwargs = kw, !.pc = "L128c"]
      [] f.fn = "_call_class_init" /\ f.pc = "L139" ->
            [f EXCEPT !.kwargs = kw, !.pc = "L139c"]
      [] f.fn = "_call_class_init" /\ f.pc = "L144" ->
            [f EXCEPT !.ret = v, !.pc = "L144s"]
      [] f.fn = "_guess_kwargs" /\ f.pc = "L154" ->
            \* kwargs[arg] = self.get(hints[arg])
            [f EXCEPT !.kwargs = Append(@, <<f.todo[1][1], v>>),
                      !.todo = Tail(@), !.pc = "L151"]
      [] f.fn = "register_module" /\ f.pc = "L91" ->
            [f EXCEPT !.thing = Obj(v), !.pc = "L92"]

SetTop(c, f) == stack' = [stack EXCEPT ![c] = [@ EXCEPT ![Len(@)] = f]]

\* A call: the caller waits in f, the callee starts in g.
Push(c, f, g) ==
    /\ Len(stack[c]) < MaxDepth
    /\ stack' = [stack EXCEPT ![c] = Append([@ EXCEPT ![Len(@)] = f], g)]

Finish(c, ok, err, v) ==
    /\ hist' = Append(hist, [cur[c] EXCEPT !.ok = ok, !.err = err, !.val = v])
    /\ cur' = [cur EXCEPT ![c] = NoCall]

\* return v (or kw) from the top frame
Return(c, v, kw) ==
    LET n == Len(stack[c])
    IN IF n = 1
       THEN /\ stack' = [stack EXCEPT ![c] = <<>>]
            /\ Finish(c, TRUE, "", v)
       ELSE /\ stack' = [stack EXCEPT ![c] =
                            Append(SubSeq(@, 1, n - 2), Resume(@[n - 1], v, kw))]
            /\ UNCHANGED <<hist, cur>>

\* raise Exception(...): nothing catches it, the whole call stack unwinds
Raise(c, err) ==
    /\ stack' = [stack EXCEPT ![c] = <<>>]
    /\ Finish(c, FALSE, err, 0)

\* The client makes its calls one after the other.
Ready(c) == Idle /\ Len(hist) < OpsBound(scn)

\* A call that binds whatever it is passed.
AcceptsAnything(f, kwargs) == TRUE

\* f(**kwargs) binds: every declared parameter gets a value and no other
\* keyword is passed; Python raises TypeError otherwise.
Accepts(f, kwargs) ==
    {Signature(f)[k] : k \in 1..Len(Signature(f))} = {kwargs[k][1] : k \in 1..Len(kwargs)}

(***************************************************************************)
(* Injector.register_provider (lines 103-109).                             *)
(***************************************************************************)
\* 'provides' not in getattr(func, '__di__', {})
NotAProvider(func) ==
    IF HasDi(func) THEN "provides" \notin DiDict(func).keys ELSE TRUE

\* A registration that keeps an earlier provider of the type.
register_provider_setdefault(fs, func) == fs @@ (DiDict(func).provides :> func)

\* A registration that drops what was registered before.
register_provider_alone(fs, func) == DiDict(func).provides :> func

\* self.factories[func.__di__['provides']] = func
register_provider(fs, func) == (DiDict(func).provides :> func) @@ fs

RegisterProviderOk(c, call) ==
    /\ Ready(c)
    /\ call.op = "register_provider"
    /\ ~NotAProvider(call.arg)
    /\ factories' = register_provider(factories, call.arg)
    /\ hist' = Append(hist, [call EXCEPT !.ok = TRUE])
    /\ UNCHANGED <<scn, instances, heap, di, stack, cur>>

RegisterProviderFail(c, call) ==
    /\ Ready(c)
    /\ call.op = "register_provider"
    /\ NotAProvider(call.arg)
    /\ hist' = Append(hist, [call EXCEPT !.err = "not a provider"])
    /\ UNCHANGED <<scn, factories, instances, heap, di, stack, cur>>

(***************************************************************************)
(* inject / inject_object (lines 42-68), applied to an existing object.    *)
(***************************************************************************)
\* if inspect.isclass(obj) or callable(obj)
Injectable(obj) == IF IsClass(obj) THEN TRUE ELSE Callable(obj)

InjectOk(c, call) ==
    /\ Ready(c)
    /\ call.op = "inject"
    /\ Injectable(call.arg)
    /\ di' = inject_object(di, call.arg.n, call.name, call.type)
    /\ hist' = Append(hist, [call EXCEPT !.ok = TRUE])
    /\ UNCHANGED <<scn, factories, instances, heap, stack, cur>>

InjectFail(c, call) ==
    /\ Ready(c)
    /\ call.op = "inject"
    /\ ~Injectable(call.arg)
    /\ hist' = Append(hist, [call EXCEPT !.err = "don't know how to inject"])
    /\ UNCHANGED <<scn, factories, instances, heap, di, stack, cur>>

(***************************************************************************)
(* Injector.register_module (lines 86-101).                                *)
(***************************************************************************)
\* A test that reads the 'singleton' key instead of 'provides'.
IsMarkedSingleton(func) == IF HasDi(func) THEN DiDict(func).singleton ELSE FALSE

\* if hasattr(func, '__di__') and func.__di__.get('provides')
IsMarkedProvider(func) ==
    IF HasDi(func)
    THEN "provides" \in DiDict(func).keys /\ DiDict(func).provides # NoThing
    ELSE FALSE

\* for func in funcs: ... self.register_provider(func)
RECURSIVE RegisterFuncs(_, _)
RegisterFuncs(fs, funcs) ==
    IF funcs = <<>> THEN fs
    ELSE RegisterFuncs(
            IF IsMarkedProvider(Head(funcs))
            THEN register_provider(fs, Head(funcs)) ELSE fs,
            Tail(funcs))

CallRegisterModule(c, call) ==
    /\ Ready(c)
    /\ call.op = "register_module"
    /\ stack' = [stack EXCEPT ![c] = <<Frame("register_module", "L90", call.arg)>>]
    /\ cur' = [cur EXCEPT ![c] = call]
    /\ UNCHANGED <<scn, factories, instances, heap, di, hist>>

\* if inspect.isclass(module): module = self.get(module)
RegisterModuleResolve(c) ==
    /\ At(c, "register_module", "L90")
    /\ IsClass(Top(c).thing)
    /\ Push(c, [Top(c) EXCEPT !.pc = "L91"], Frame("get", "L115", Top(c).thing))
    /\ UNCHANGED <<scn, factories, instances, heap, di, cur, hist>>

AtModuleCheck(c) ==
    \/ At(c, "register_module", "L90") /\ ~IsClass(Top(c).thing)
    \/ At(c, "register_module", "L92")

\* isinstance(module, Module): register every marked bound method
RegisterModuleFuncs(c) ==
    /\ AtModuleCheck(c)
    /\ IsModule(Top(c).thing)
    /\ factories' = RegisterFuncs(factories, ModuleFuncs(Top(c).thing))
    /\ Return(c, 0, <<>>)
    /\ UNCHANGED <<scn, instances, heap, di>>

\* raise Exception("Don't know how to register module")
RegisterModuleFail(c) ==
    /\ AtModuleCheck(c)
    /\ ~IsModule(Top(c).thing)
    /\ Raise(c, "don't know how to register module")
    /\ UNCHANGED <<scn, factories, instances, heap, di>>

(***************************************************************************)
(* Injector.get (lines 111-130).                                           *)
(***************************************************************************)
\* A get that tests for a class before it looks into the registry.
DispatchClassFirst(thing) ==
    IF thing \in DOMAIN instances THEN "cached"
    ELSE IF IsClass(thing) THEN "class"
    ELSE IF thing \in DOMAIN factories THEN "factory"
    ELSE IF Callable(thing) THEN "callable"
    ELSE "raise"

\* A get that asks the registry before the instance cache.
DispatchRegistryFirst(thing) ==
    IF thing \in DOMAIN factories THEN "factory"
    ELSE IF thing \in DOMAIN instances THEN "cached"
    ELSE IF IsClass(thing) THEN "class"
    ELSE IF Callable(thing) THEN "callable"
    ELSE "raise"

\* A get that never looks into the instance cache.
DispatchNoCache(thing) ==
    IF thing \in DOMAIN factories THEN "factory"
    ELSE IF IsClass(thing) THEN "class"
    ELSE IF Callable(thing) THEN "callable"
    ELSE "raise"

\* Which of get's branches handles thing.
Dispatch(thing) ==
    IF thing \in DOMAIN instances THEN "cached"
    ELSE IF thing \in DOMAIN factories THEN "factory"
    ELSE IF IsClass(thing) THEN "class"
    ELSE IF Callable(thing) THEN "callable"
    ELSE "raise"

\* A provider that is never treated as a singleton.
IsSingletonNever(fact) == FALSE

\* A provider that is always treated as a singleton.
IsSingletonAlways(fact) == TRUE

\* hasattr(fact, '__di__') and fact.__di__['singleton']
IsSingleton(fact) == IF HasDi(fact) THEN DiDict(fact).singleton ELSE FALSE

CallGet(c, call) ==
    /\ Ready(c)
    /\ call.op = "get"
    /\ stack' = [stack EXCEPT ![c] = <<Frame("get", "L115", call.arg)>>]
    /\ cur' = [cur EXCEPT ![c] = call]
    /\ UNCHANGED <<scn, factories, instances, heap, di, hist>>

\* if thing in self.instances: return self.instances[thing]
GetCached(c) ==
    /\ At(c, "get", "L115")
    /\ Dispatch(Top(c).thing) = "cached"
    /\ Return(c, instances[Top(c).thing], <<>>)
    /\ UNCHANGED <<scn, factories, instances, heap, di>>

\* if thing in self.factories: fact = self.factories[thing]; ret = self.get(fact)
GetFactory(c) ==
    /\ At(c, "get", "L115")
    /\ Dispatch(Top(c).thing) = "factory"
    /\ LET fact == factories[Top(c).thing]
       IN Push(c, [Top(c) EXCEPT !.fact = fact, !.pc = "L120"],
               Frame("get", "L115", fact))
    /\ UNCHANGED <<scn, factories, instances, heap, di, cur, hist>>

\* if ... singleton: self.instances[thing] = ret; return ret
GetFactoryReturn(c) ==
    /\ At(c, "get", "L121")
    /\ instances' = IF IsSingleton(Top(c).fact)
                    THEN (Top(c).thing :> Top(c).ret) @@ instances
                    ELSE instances
    /\ Return(c, Top(c).ret, <<>>)
    /\ UNCHANGED <<scn, factories, heap, di>>

\* if inspect.isclass(thing): return self._call_class_init(thing)
GetClass(c) ==
    /\ At(c, "get", "L115")
    /\ Dispatch(Top(c).thing) = "class"
    /\ Push(c, [Top(c) EXCEPT !.pc = "L126"],
            Frame("_call_class_init", "L136", Top(c).thing))
    /\ UNCHANGED <<scn, factories, instances, heap, di, cur, hist>>

GetClassReturn(c) ==
    /\ At(c, "get", "L126r")
    /\ Return(c, Top(c).ret, <<>>)
    /\ UNCHANGED <<scn, factories, instances, heap, di>>

\* elif callable(thing): ... self._guess_kwargs(thing)
GetCallable(c) ==
    /\ At(c, "get", "L115")
    /\ Dispatch(Top(c).thing) = "callable"
    /\ Push(c, [Top(c) EXCEPT !.pc = "L128"], GuessFrame(Top(c).thing.n))
    /\ UNCHANGED <<scn, factories, instances, heap, di, cur, hist>>

\* return thing(**kwargs): the body builds and returns a new object
GetInvoke(c) ==
    /\ At(c, "get", "L128c")
    /\ Accepts(Top(c).thing.n, Top(c).kwargs)
    /\ heap' = Append(heap, NewObject(Returns(Top(c).thing.n), Top(c).thing,
                                      Top(c).kwargs))
    /\ Return(c, Len(heap) + 1, <<>>)
    /\ UNCHANGED <<scn, factories, instances, di>>

\* thing(**kwargs) with a declared parameter left out: TypeError
GetInvokeFail(c) ==
    /\ At(c, "get", "L128c")
    /\ ~Accepts(Top(c).thing.n, Top(c).kwargs)
    /\ Raise(c, "TypeError")
    /\ UNCHANGED <<scn, factories, instances, heap, di>>

\* raise Exception('not sure what thing is')
GetRaise(c) ==
    /\ At(c, "get", "L115")
    /\ Dispatch(Top(c).thing) = "raise"
    /\ Raise(c, "not sure what thing is")
    /\ UNCHANGED <<scn, factories, instances, heap, di>>

(***************************************************************************)
(* Injector._call_class_init (lines 132-146).                              *)
(***************************************************************************)
\* A constructor call that never looks for declared parameters.
HasNoInitAlways(cls) == TRUE

\* if cls.__init__ is object.__init__
HasNoInit(cls) == InitOf(cls.n) = "object.__init__"

\* hasattr(obj, '__di__') and 'inject' in obj.__di__: the items to set
InjectItemsOf(d, cls) ==
    LET r == LookupDi(d.ref, cls)
    IN IF r = 0 THEN <<>>
       ELSE IF "inject" \in d.dicts[r].keys THEN d.dicts[r].inject ELSE <<>>

\* A constructor call that finds no injection metadata.
InjectNothing(o) == <<>>

InjectItems(o) == InjectItemsOf(di, heap[o].cls)

\* obj = cls()
ClassInitPlain(c) ==
    /\ At(c, "_call_class_init", "L136")
    /\ HasNoInit(Top(c).thing)
    /\ heap' = Append(heap, NewObject(Top(c).thing.n, Top(c).thing, <<>>))
    /\ SetTop(c, [Top(c) EXCEPT !.obj = Len(heap) + 1, !.pc = "L142"])
    /\ UNCHANGED <<scn, factories, instances, di, cur, hist>>

\* self._guess_kwargs(cls.__init__)
ClassInitGuess(c) ==
    /\ At(c, "_call_class_init", "L136")
    /\ ~HasNoInit(Top(c).thing)
    /\ Push(c, [Top(c) EXCEPT !.pc = "L139"], GuessFrame(InitOf(Top(c).thing.n)))
    /\ UNCHANGED <<scn, factories, instances, heap, di, cur, hist>>

\* obj = cls(**kwargs)
ClassInitConstruct(c) ==
    /\ At(c, "_call_class_init", "L139c")
    /\ Accepts(InitOf(Top(c).thing.n), Top(c).kwargs)
    /\ heap' = Append(heap, NewObject(Top(c).thing.n, Top(c).thing, Top(c).kwargs))
    /\ SetTop(c, [Top(c) EXCEPT !.obj = Len(heap) + 1, !.pc = "L142"])
    /\ UNCHANGED <<scn, factories, instances, di, cur, hist>>

\* cls(**kwargs) with a declared parameter left out: TypeError
ClassInitConstructFail(c) ==
    /\ At(c, "_call_class_init", "L139c")
    /\ ~Accepts(InitOf(Top(c).thing.n), Top(c).kwargs)
    /\ Raise(c, "TypeError")
    /\ UNCHANGED <<scn, factories, instances, heap, di>>

\* for prop_name, prop_type in obj.__di__['inject'].items()
ClassInitItems(c) ==
    /\ At(c, "_call_class_init", "L142")
    /\ SetTop(c, [Top(c) EXCEPT !.todo = InjectItems(Top(c).obj), !.pc = "L143"])
    /\ UNCHANGED <<scn, factories, instances, heap, di, cur, hist>>

\* self.get(prop_type)
ClassInitResolve(c) ==
    /\ At(c, "_call_class_init", "L143")
    /\ Top(c).todo # <<>>
    /\ Push(c, [Top(c) EXCEPT !.pc = "L144"], Frame("get", "L115", Top(c).todo[1][2]))
    /\ UNCHANGED <<scn, factories, instances, heap, di, cur, hist>>

\* setattr(obj, prop_name, ...)
ClassInitSetattr(c) ==
    /\ At(c, "_call_class_init", "L144s")
    /\ heap' = [heap EXCEPT ![Top(c).obj].attrs =
                    PutInject(@, Top(c).todo[1][1], Top(c).ret)]
    /\ SetTop(c, [Top(c) EXCEPT !.todo = Tail(@), !.pc = "L143"])
    /\ UNCHANGED <<scn, factories, instances, di, cur, hist>>

\* return obj
ClassInitReturn(c) ==
    /\ At(c, "_call_class_init", "L143")
    /\ Top(c).todo = <<>>
    /\ Return(c, Top(c).obj, <<>>)
    /\ UNCHANGED <<scn, factories, instances, heap, di>>

(***************************************************************************)
(* Injector._guess_kwargs (lines 148-155).                                 *)
(***************************************************************************)
\* A loop that resolves every hint, the return slot included.
SkipsNoHint(arg) == FALSE

\* if arg == 'return': continue
SkipsHint(arg) == arg = "return"

GuessSkip(c) ==
    /\ At(c, "_guess_kwargs", "L151")
    /\ Top(c).todo # <<>>
    /\ SkipsHint(Top(c).todo[1][1])
    /\ SetTop(c, [Top(c) EXCEPT !.todo = Tail(@)])
    /\ UNCHANGED <<scn, factories, instances, heap, di, cur, hist>>

\* kwargs[arg] = self.get(hints[arg])
GuessResolve(c) ==
    /\ At(c, "_guess_kwargs", "L151")
    /\ Top(c).todo # <<>>
    /\ ~SkipsHint(Top(c).todo[1][1])
    /\ Push(c, [Top(c) EXCEPT !.pc = "L154"], Frame("get", "L115", Top(c).todo[1][2]))
    /\ UNCHANGED <<scn, factories, instances, heap, di, cur, hist>>

\* return kwargs
GuessReturn(c) ==
    /\ At(c, "_guess_kwargs", "L151")
    /\ Top(c).todo = <<>>
    /\ Return(c, 0, Top(c).kwargs)
    /\ UNCHANGED <<scn, factories, instances, heap, di>>

\* The top frame is about to call get, _call_class_init or _guess_kwargs.
Calling(c) ==
    CASE At(c, "get", "L115") -> Dispatch(Top(c).thing) \in {"factory", "class", "callable"}
      [] At(c, "_call_class_init", "L136") -> ~HasNoInit(Top(c).thing)
      [] At(c, "_call_class_init", "L143") -> Top(c).todo # <<>>
      [] At(c, "_guess_kwargs", "L151") ->
            IF Top(c).todo = <<>> THEN FALSE ELSE ~SkipsHint(Top(c).todo[1][1])
      [] OTHER -> FALSE

\* The nested calls have used up the interpreter's stack: RecursionError
RecursionLimit(c) ==
    /\ Len(stack[c]) = MaxDepth
    /\ Calling(c)
    /\ Raise(c, "RecursionError")
    /\ UNCHANGED <<scn, factories, instances, heap, di>>

StartRegisterProviderOk(c) == \E call \in Calls(scn) : RegisterProviderOk(c, call)

StartRegisterProviderFail(c) == \E call \in Calls(scn) : RegisterProviderFail(c, call)

StartInjectOk(c) == \E call \in Calls(scn) : InjectOk(c, call)

StartInjectFail(c) == \E call \in Calls(scn) : InjectFail(c, call)

StartRegisterModule(c) == \E call \in Calls(scn) : CallRegisterModule(c, call)

StartGet(c) == \E call \in Calls(scn) : CallGet(c, call)

Start(c) ==
    \/ StartRegisterProviderOk(c)
    \/ StartRegisterProviderFail(c)
    \/ StartInjectOk(c)
    \/ StartInjectFail(c)
    \/ StartRegisterModule(c)
    \/ StartGet(c)

Step(c) ==
    \/ RegisterModuleResolve(c)
    \/ RegisterModuleFuncs(c)
    \/ RegisterModuleFail(c)
    \/ GetCached(c)
    \/ GetFactory(c)
    \/ GetFactoryReturn(c)
    \/ GetClass(c)
    \/ GetClassReturn(c)
    \/ GetCallable(c)
    \/ GetInvoke(c)
    \/ GetInvokeFail(c)
    \/ GetRaise(c)
    \/ ClassInitPlain(c)
    \/ ClassInitGuess(c)
    \/ ClassInitConstruct(c)
    \/ ClassInitConstructFail(c)
    \/ ClassInitItems(c)
    \/ ClassInitResolve(c)
    \/ ClassInitSetattr(c)
    \/ ClassInitReturn(c)
    \/ GuessSkip(c)
    \/ GuessResolve(c)
    \/ GuessReturn(c)
    \/ RecursionLimit(c)

Next == \E c \in Contexts : Start(c) \/ Step(c)

Spec == Init /\ [][Next]_vars

\* A call that has begun keeps running: the interpreter executes a thread's
\* next step as long as there is one.
FairSpec == Spec /\ \A c \in Contexts : WF_vars(Step(c))

(***************************************************************************)
(* Two threads on one Injector.  The parent registers a provider while no  *)
(* call is running; after that each thread calls get whenever it is not    *)
(* inside a call.  get takes no lock (lines 111-130), so the steps of the  *)
(* two calls interleave at every point where one of them may be suspended. *)
(***************************************************************************)
Threads == {1, 2}

ConcInit ==
    /\ scn = "race"
    /\ factories = EmptyMap
    /\ instances = EmptyMap
    /\ heap = ClientObjects
    /\ di = Decorated
    /\ stack = [c \in Threads |-> <<>>]
    /\ cur = [c \in Threads |-> NoCall]
    /\ hist = <<>>

\* The calls that have begun and not yet returned.
Running == {c \in DOMAIN stack : stack[c] # <<>>}

ConcRegister(c) ==
    /\ hist = <<>>
    /\ StartRegisterProviderOk(c)

\* def get(self, thing): entered by a thread with no regard to the other
ConcGet(c) ==
    /\ hist # <<>>
    /\ stack[c] = <<>>
    /\ Len(hist) + Cardinality(Running) < MaxRaceOps
    /\ \E call \in Calls(scn) :
        /\ call.op = "get"
        /\ stack' = [stack EXCEPT ![c] = <<Frame("get", "L115", call.arg)>>]
        /\ cur' = [cur EXCEPT ![c] = call]
    /\ UNCHANGED <<scn, factories, instances, heap, di, hist>>

ConcStep(c) ==
    \/ GetCached(c)
    \/ GetFactory(c)
    \/ GetFactoryReturn(c)
    \/ GetCallable(c)
    \/ GetInvoke(c)
    \/ GuessSkip(c)
    \/ GuessReturn(c)

ConcNext == \E c \in Threads : ConcRegister(c) \/ ConcGet(c) \/ ConcStep(c)

ConcSpec == ConcInit /\ [][ConcNext]_vars

(***************************************************************************)
(* Vocabulary of the properties: the completed calls and what they left.   *)
(***************************************************************************)
Types == {Cls(n) : n \in ClassNames}

\* The state a completed call left behind: the state the next call found,
\* or the present state after the last one.
After(i) ==
    IF i < Len(hist) THEN hist[i + 1]
    ELSE IF Idle
         THEN [NoCall EXCEPT !.facts = factories, !.inst = instances,
                             !.nxt = Len(heap), !.dis = di]
         ELSE cur[CHOOSE c \in DOMAIN stack : stack[c] # <<>>]

\* The get(T) calls that returned a value.
Gets(T) == {i \in 1..Len(hist) : hist[i].op = "get" /\ hist[i].arg = T /\ hist[i].ok}

\* The provider registered for T when call i was made.
ProviderAt(i, T) == IF T \in DOMAIN hist[i].facts THEN hist[i].facts[T] ELSE NoThing

\* The singleton flag the provider decorator recorded on f.
FlaggedSingleton(f) == IF DiOf(f) = 0 THEN FALSE ELSE di.dicts[DiOf(f)].singleton

\* The get(T) calls made while T's registered provider was (not) a singleton.
SingletonGets(T) ==
    {i \in Gets(T) : IF ProviderAt(i, T) = NoThing THEN FALSE
                     ELSE FlaggedSingleton(ProviderAt(i, T))}

PlainGets(T) ==
    {i \in Gets(T) : IF ProviderAt(i, T) = NoThing THEN FALSE
                     ELSE ~FlaggedSingleton(ProviderAt(i, T))}

\* How often a function or class has been invoked by the Injector.
Execs(f) == Cardinality({o \in 1..Len(heap) : heap[o].by = f})

\* The objects singleton providers of T have produced.
SingletonProducts(T) ==
    {o \in 1..Len(heap) :
        IF heap[o].by.k \in {"func", "method"} /\ FlaggedSingleton(heap[o].by)
        THEN di.dicts[DiOf(heap[o].by)].provides = T
        ELSE FALSE}

\* Call i built object o itself.
BuiltIn(i, o) == hist[i].nxt < o /\ o <= After(i).nxt

(***************************************************************************)
(* C1 (as stated): for a type whose registered provider is a singleton,    *)
(* all get calls return the identical instance and the registered provider *)
(* has been executed exactly once.                                         *)
(***************************************************************************)
C1_ProviderRunsExactlyOnce ==
    \A T \in Types :
        Cardinality(SingletonGets(T)) >= 2 =>
            /\ \A i, j \in SingletonGets(T) : hist[i].val = hist[j].val
            /\ \A i \in SingletonGets(T) : Execs(ProviderAt(i, T)) = 1

(***************************************************************************)
(* C1 (amended): for a type whose registered provider is a singleton, all  *)
(* get calls return the one cached instance, exactly one singleton         *)
(* provider of the type has ever been executed, and the registered         *)
(* provider has been executed once if the cached instance is its product   *)
(* and never if the instance was cached before it was registered.          *)
(***************************************************************************)
C1_SingletonIsCachedOnce ==
    \A T \in Types :
        \A i \in SingletonGets(T) :
            /\ T \in DOMAIN instances
            /\ hist[i].val = instances[T]
            /\ \A j \in SingletonGets(T) : hist[i].val = hist[j].val
            /\ SingletonProducts(T) = {instances[T]}
            /\ Execs(ProviderAt(i, T)) =
                    IF heap[instances[T]].by = ProviderAt(i, T) THEN 1 ELSE 0

\* Two get(A) calls under a singleton provider have returned, the second
\* from the cache.
C1_Witness ==
    /\ Idle
    /\ \E i, j \in SingletonGets(Cls("A")) :
            /\ i < j
            /\ Cls("A") \notin DOMAIN hist[i].inst
            /\ Cls("A") \in DOMAIN hist[j].inst

(***************************************************************************)
(* C2 (as stated): for a type whose registered provider is not a           *)
(* singleton, every get call invokes the provider again and returns an     *)
(* instance of its own, and adds no cache entry for the type.              *)
(***************************************************************************)
C2_ProviderInvokedEveryTime ==
    \A T \in Types :
        \A i \in PlainGets(T) :
            /\ BuiltIn(i, hist[i].val)
            /\ heap[hist[i].val].by = ProviderAt(i, T)
            /\ \A j \in Gets(T) : j # i => hist[j].val # hist[i].val
            /\ T \in DOMAIN After(i).inst => T \in DOMAIN hist[i].inst

(***************************************************************************)
(* C2 (amended): for a type whose registered provider is not a singleton   *)
(* and that has no cached instance, every get call invokes the provider    *)
(* again and returns an instance of its own, and adds no cache entry for   *)
(* the type.                                                               *)
(***************************************************************************)
C2_UncachedProviderInvokedEveryTime ==
    \A T \in Types :
        \A i \in PlainGets(T) :
            T \notin DOMAIN hist[i].inst =>
                /\ BuiltIn(i, hist[i].val)
                /\ heap[hist[i].val].by = ProviderAt(i, T)
                /\ \A j \in Gets(T) : j # i => hist[j].val # hist[i].val
                /\ T \notin DOMAIN After(i).inst

\* Two get(B) calls under a non-singleton provider have returned, B uncached.
C2_Witness ==
    /\ Idle
    /\ \E i, j \in PlainGets(Cls("B")) :
            /\ i < j
            /\ Cls("B") \notin DOMAIN hist[j].inst
            /\ hist[i].val # hist[j].val

\* The function whose hints decide the keyword arguments of a callable: the
\* initializer for a class, the function itself otherwise.
SignatureOf(t) == IF IsClass(t) THEN InitOf(t.n) ELSE t.n

\* The declared parameters of a callable: its hints without the return slot.
Params(t) ==
    LET h == Hints(SignatureOf(t))
    IN SelectSeq(h, LAMBDA e : e[1] # "return")

TakesParam(f, T) == \E k \in 1..Len(Params(f)) : Params(f)[k][2] = T

\* The values object o was built with for its parameters of type T.
ArgsOfType(o, T) ==
    {heap[o].kw[k][2] : k \in {k \in 1..Len(heap[o].kw) :
        \E h \in 1..Len(Params(heap[o].by)) :
            /\ Params(heap[o].by)[h][1] = heap[o].kw[k][1]
            /\ Params(heap[o].by)[h][2] = T}}

\* The get(B) calls made with a singleton provider registered for A and a
\* non-singleton provider for B that takes an A.
DependentGets(A, B) ==
    {i \in PlainGets(B) :
        /\ TakesParam(ProviderAt(i, B), A)
        /\ IF ProviderAt(i, A) = NoThing THEN FALSE
           ELSE FlaggedSingleton(ProviderAt(i, A))}

(***************************************************************************)
(* C3 (as stated): with a singleton provider for A and a non-singleton     *)
(* provider for B that takes an A, the get(B) calls return pairwise        *)
(* distinct objects built from one and the same A, and A's registered      *)
(* provider has been executed exactly once.                                *)
(***************************************************************************)
C3_DistinctBSameAProviderOnce ==
    \A A, B \in Types :
        \A i, j \in DependentGets(A, B) :
            /\ i # j => hist[i].val # hist[j].val
            /\ ArgsOfType(hist[i].val, A) = ArgsOfType(hist[j].val, A)
            /\ Cardinality(ArgsOfType(hist[i].val, A)) = 1
            /\ Execs(ProviderAt(i, A)) = 1

(***************************************************************************)
(* C3 (amended): with a singleton provider for A, a non-singleton provider *)
(* for B that takes an A and no cached instance of B, the get(B) calls     *)
(* return pairwise distinct objects, all built from the one cached A;      *)
(* exactly one singleton provider of A has ever been executed, which is    *)
(* A's registered provider unless A was cached before it was registered.   *)
(***************************************************************************)
C3_DistinctBSameCachedA ==
    \A A, B \in Types :
        \A i \in DependentGets(A, B) :
            B \notin DOMAIN hist[i].inst =>
                /\ \A j \in Gets(B) : j # i => hist[j].val # hist[i].val
                /\ A \in DOMAIN instances
                /\ ArgsOfType(hist[i].val, A) = {instances[A]}
                /\ SingletonProducts(A) = {instances[A]}
                /\ Execs(ProviderAt(i, A)) =
                        IF heap[instances[A]].by = ProviderAt(i, A) THEN 1 ELSE 0

\* get(B), get(A), get(B) have returned in this order, B never cached.
C3_Witness ==
    /\ Idle
    /\ \E i, j \in DependentGets(Cls("A"), Cls("B")) :
            /\ Cls("B") \notin DOMAIN hist[j].inst
            /\ \E k \in Gets(Cls("A")) : i < k /\ k < j

\* The get calls made, whatever their outcome.
GetCalls == {i \in 1..Len(hist) : hist[i].op = "get"}

\* Every frame of every call stack.
Frames == UNION {{stack[c][k] : k \in 1..Len(stack[c])} : c \in DOMAIN stack}

\* The errors the spec calls Unsupported.
Unsupported ==
    {"not sure what thing is", "don't know how to register module",
     "don't know how to inject"}

(***************************************************************************)
(* C4: get(x) decides by fixed priority.  A cached x is returned without   *)
(* anything being invoked; else a registered provider is invoked; else a   *)
(* class is constructed; else a callable is invoked and not cached; else   *)
(* the call fails with an Unsupported error and changes neither cache nor  *)
(* registry.  No class with a registered provider is ever constructed      *)
(* directly.                                                               *)
(***************************************************************************)
C4_DispatchPriority ==
    /\ \A i \in GetCalls :
        LET x == hist[i].arg
            v == hist[i].val
            pre == hist[i]
            post == After(i)
        IN  /\ IF x \in DOMAIN pre.inst
               THEN pre.ok /\ v = pre.inst[x] /\ post.nxt = pre.nxt
               ELSE IF x \in DOMAIN pre.facts
               THEN pre.ok => BuiltIn(i, v) /\ heap[v].by = pre.facts[x]
               ELSE IF x.k = "class"
               THEN pre.ok => /\ BuiltIn(i, v)
                              /\ heap[v].by = x
                              /\ heap[v].cls = x.n
                              /\ x \notin DOMAIN post.inst
               ELSE IF x.k \in {"func", "method"}
               THEN pre.ok => /\ BuiltIn(i, v)
                              /\ heap[v].by = x
                              /\ x \notin DOMAIN post.inst
               ELSE /\ ~pre.ok
                    /\ pre.err \in Unsupported
                    /\ post.inst = pre.inst
                    /\ post.facts = pre.facts
    /\ \A f \in Frames :
        f.fn = "_call_class_init" =>
            f.thing \notin DOMAIN factories /\ f.thing \notin DOMAIN instances

\* A run in which get took the provider branch, then the cache branch for the
\* same type, and failed on a value that is neither class nor callable.
C4_Witness ==
    /\ Idle
    /\ \E i, j, k \in GetCalls :
        /\ hist[i].arg \in DOMAIN hist[i].facts
        /\ hist[i].arg \notin DOMAIN hist[i].inst
        /\ hist[j].arg = hist[i].arg
        /\ hist[j].arg \in DOMAIN hist[j].inst
        /\ ~hist[k].ok

\* f carries provider metadata; the type it then provides.
HasProviderMetadata(f) ==
    IF DiOf(f) = 0 THEN FALSE ELSE "provides" \in di.dicts[DiOf(f)].keys

ProvidedType(f) == di.dicts[DiOf(f)].provides

\* The bound methods of the module instance o, with and without metadata.
BoundMethods(o) ==
    {Method(o, MethodsOf(heap[o].cls)[k]) : k \in 1..Len(MethodsOf(heap[o].cls))}

ProviderMethods(o) == {f \in BoundMethods(o) : HasProviderMetadata(f)}

IsModuleInstance(o) ==
    \E k \in 1..Len(MRO(heap[o].cls)) : MRO(heap[o].cls)[k] = "Module"

\* The register_module calls that were handed a Module instance.
InstanceRegistrations ==
    {i \in 1..Len(hist) :
        /\ hist[i].op = "register_module"
        /\ hist[i].arg.k = "obj"
        /\ IsModuleInstance(hist[i].arg.o)}

(***************************************************************************)
(* C5: register_module on a Module instance succeeds and leaves, for the   *)
(* provided type of every bound method with provider metadata, a registry  *)
(* entry that maps the type to such a method; methods without metadata are *)
(* not registered and every other entry is as before; a later get of a     *)
(* provided type succeeds and returns an instance of the type.             *)
(***************************************************************************)
C5_ModuleProvidersRegistered ==
    \A i \in InstanceRegistrations :
        LET o == hist[i].arg.o
            pre == hist[i]
            post == After(i)
            provided == {ProvidedType(f) : f \in ProviderMethods(o)}
        IN  /\ pre.ok
            /\ DOMAIN post.facts = DOMAIN pre.facts \cup provided
            /\ \A T \in provided :
                    post.facts[T] \in {f \in ProviderMethods(o) : ProvidedType(f) = T}
            /\ \A T \in DOMAIN pre.facts \ provided : post.facts[T] = pre.facts[T]
            /\ \A f \in BoundMethods(o) \ ProviderMethods(o) :
                    \A T \in DOMAIN post.facts : post.facts[T] # f
            /\ post.inst = pre.inst
            /\ \A j \in GetCalls :
                    j > i /\ hist[j].arg \in provided =>
                        hist[j].ok /\ heap[hist[j].val].cls = hist[j].arg.n

\* A module with marked and unmarked methods was registered, and each of its
\* provided types was requested and obtained afterwards.
C5_Witness ==
    /\ Idle
    /\ \E i \in InstanceRegistrations :
        /\ BoundMethods(hist[i].arg.o) # ProviderMethods(hist[i].arg.o)
        /\ \A f \in ProviderMethods(hist[i].arg.o) :
                \E j \in GetCalls :
                    j > i /\ hist[j].arg = ProvidedType(f) /\ hist[j].ok

ProviderRegistrations == {i \in 1..Len(hist) : hist[i].op = "register_provider"}

(***************************************************************************)
(* C6: register_provider on a function without provider metadata fails     *)
(* with the Configuration error and leaves registry and cache as they      *)
(* were; on a function with metadata it maps the provided type to the      *)
(* function, replacing an earlier provider, and changes no other entry.    *)
(***************************************************************************)
C6_RegisterProvider ==
    \A i \in ProviderRegistrations :
        LET f == hist[i].arg
            pre == hist[i]
            post == After(i)
        IN IF ~HasProviderMetadata(f)
           THEN /\ ~pre.ok
                /\ pre.err = "not a provider"
                /\ post.facts = pre.facts
                /\ post.inst = pre.inst
           ELSE /\ pre.ok
                /\ DOMAIN post.facts = DOMAIN pre.facts \cup {ProvidedType(f)}
                /\ post.facts[ProvidedType(f)] = f
                /\ \A T \in DOMAIN pre.facts :
                        T # ProvidedType(f) => post.facts[T] = pre.facts[T]
                /\ post.inst = pre.inst

\* One registration was refused, and one replaced the provider of a type while
\* another type's entry was in the registry.
C6_Witness ==
    /\ Idle
    /\ \E i, j \in ProviderRegistrations :
        /\ ~hist[i].ok
        /\ hist[j].ok
        /\ ProvidedType(hist[j].arg) \in DOMAIN hist[j].facts
        /\ hist[j].facts[ProvidedType(hist[j].arg)] # hist[j].arg
        /\ DOMAIN hist[j].facts # {ProvidedType(hist[j].arg)}

ModuleRegistrations == {i \in 1..Len(hist) : hist[i].op = "register_module"}

\* The class of what get(x) yields in the state call i found: the cached
\* instance's, else what the registered provider declares, else x itself.
ResolvedClass(i, x) ==
    IF x \in DOMAIN hist[i].inst THEN heap[hist[i].inst[x]].cls
    ELSE IF x \in DOMAIN hist[i].facts THEN Returns(hist[i].facts[x].n)
    ELSE x.n

IsModuleClass(n) == \E k \in 1..Len(MRO(n)) : MRO(n)[k] = "Module"

\* The module instances call i may have registered: the instance it was
\* handed, or one of the class it was handed that get resolved during the call.
ModulesOf(i) ==
    LET x == hist[i].arg
    IN IF x.k = "obj" THEN {o \in {x.o} : IsModuleInstance(o)}
       ELSE IF x.k = "class" /\ IsModuleClass(ResolvedClass(i, x))
            THEN {o \in 1..After(i).nxt :
                    /\ heap[o].cls = ResolvedClass(i, x)
                    /\ IF x \in DOMAIN hist[i].inst THEN o = hist[i].inst[x]
                       ELSE BuiltIn(i, o)}
            ELSE {}

(***************************************************************************)
(* C7: register_module succeeds on a Module instance and on a class that   *)
(* get resolves to a Module instance, registering the provider methods of  *)
(* that instance; on any other argument it fails with an Unsupported error *)
(* and the factory registry is as it was.                                  *)
(***************************************************************************)
C7_RegisterModuleArgument ==
    \A i \in ModuleRegistrations :
        LET pre == hist[i]
            post == After(i)
        IN IF ModulesOf(i) # {}
           THEN /\ pre.ok
                /\ \E o \in ModulesOf(i) :
                    /\ DOMAIN post.facts =
                         DOMAIN pre.facts \cup {ProvidedType(f) : f \in ProviderMethods(o)}
                    /\ \A f \in ProviderMethods(o) :
                         post.facts[ProvidedType(f)] \in ProviderMethods(o)
           ELSE /\ ~pre.ok
                /\ pre.err \in Unsupported
                /\ post.facts = pre.facts

\* A Module class was accepted, and both a class that is no Module and a value
\* that is no class were refused with providers in the registry.
C7_Witness ==
    /\ Idle
    /\ \E i, j, k \in ModuleRegistrations :
        /\ hist[i].arg.k = "class" /\ hist[i].ok
        /\ hist[j].arg.k = "class" /\ ~hist[j].ok /\ DOMAIN hist[j].facts # {}
        /\ hist[k].arg.k = "value" /\ ~hist[k].ok

\* The names of a sequence of (name, value) pairs, in order.
Names(pairs) == [k \in 1..Len(pairs) |-> pairs[k][1]]

\* The function a frame is waiting for at a call site, "" when it is running.
Awaits(f) ==
    CASE f.fn = "get" /\ f.pc = "L120" -> "get"
      [] f.fn = "get" /\ f.pc = "L126" -> "_call_class_init"
      [] f.fn = "get" /\ f.pc = "L128" -> "_guess_kwargs"
      [] f.fn = "_call_class_init" /\ f.pc = "L139" -> "_guess_kwargs"
      [] f.fn = "_call_class_init" /\ f.pc = "L144" -> "get"
      [] f.fn = "_guess_kwargs" /\ f.pc = "L154" -> "get"
      [] f.fn = "register_module" /\ f.pc = "L91" -> "get"
      [] OTHER -> ""

\* The objects the injector has built, by invoking a provider or a constructor.
Built == {o \in 1..Len(heap) : heap[o].by # NoThing}

\* The frames of _call_class_init before and after its constructor call.
Constructing == {f \in Frames : f.fn = "_call_class_init" /\ f.pc \in {"L136", "L139", "L139c"}}

Injecting ==
    {f \in Frames : f.fn = "_call_class_init" /\ f.pc \in {"L142", "L143", "L144", "L144s"}}

(***************************************************************************)
(* C8: resolution is depth-first and synchronous.  Only the innermost call *)
(* runs, every other one waits for the call right above it; whatever was   *)
(* invoked (provider or constructor) got a value for each of its declared  *)
(* parameters, and each value existed before the invocation; a class is    *)
(* being field-injected only when its constructor call has completed with  *)
(* all its parameters, and no attribute is set on it before that.          *)
(***************************************************************************)
C8_DepthFirstSynchronous ==
    /\ \A c \in DOMAIN stack : \A k \in 1..Len(stack[c]) :
        IF k < Len(stack[c])
        THEN Awaits(stack[c][k]) = stack[c][k + 1].fn
        ELSE Awaits(stack[c][k]) = ""
    /\ \A o \in Built :
        /\ Names(heap[o].kw) = Names(Params(heap[o].by))
        /\ \A k \in 1..Len(heap[o].kw) : heap[o].kw[k][2] \in 1..(o - 1)
    /\ \A f \in Frames :
        f.fn = "get" /\ f.pc = "L128c" => Names(f.kwargs) = Names(Params(f.thing))
    /\ \A f \in Constructing :
        /\ f.obj = 0
        /\ f.pc = "L139c" => Names(f.kwargs) = Names(Params(f.thing))
    /\ \A f \in Injecting :
        /\ f.obj \in Built
        /\ heap[f.obj].by = f.thing
        /\ Names(heap[f.obj].kw) = Names(Params(f.thing))
        /\ f.pc = "L142" => heap[f.obj].attrs = <<>>

\* A class with two declared constructor parameters and an injected attribute
\* is being field-injected while the attribute's type is resolved above it.
C8_Witness ==
    \E c \in DOMAIN stack : \E k \in 1..Len(stack[c]) :
        /\ stack[c][k] \in Injecting
        /\ stack[c][k].pc = "L144"
        /\ Len(Params(stack[c][k].thing)) = 2
        /\ Len(stack[c]) > k + 1

\* v is what get(T) yields during call i: the instance cached when the call
\* began, else a product of the provider registered for T made during the call
\* (and cached, if the provider is a singleton), else an instance of T
\* constructed during the call.
ResolvesTo(i, T, v) ==
    IF T \in DOMAIN hist[i].inst THEN v = hist[i].inst[T]
    ELSE IF T \in DOMAIN hist[i].facts
         THEN /\ BuiltIn(i, v)
              /\ heap[v].by = hist[i].facts[T]
              /\ FlaggedSingleton(hist[i].facts[T]) =>
                    T \in DOMAIN After(i).inst /\ After(i).inst[T] = v
         ELSE /\ BuiltIn(i, v)
              /\ heap[v].by = T

\* The completed get calls on a class with no cached instance and no provider.
ClassGets ==
    {i \in GetCalls :
        /\ hist[i].arg.k = "class"
        /\ hist[i].arg \notin DOMAIN hist[i].inst
        /\ hist[i].arg \notin DOMAIN hist[i].facts}

\* Neither the class nor an ancestor defines an initializer.
DefinesNoInit(n) == \A k \in 1..Len(MRO(n)) : OwnInit(MRO(n)[k]) = ""

\* The type-declared parameters of the initializer of class n.
InitParams(n) ==
    SelectSeq(Hints(InitOf(n)), LAMBDA e : e[1] \notin {"self", "return"})

(***************************************************************************)
(* C9: get on a class that is neither cached nor provided returns a new    *)
(* instance of the class.  Without an initializer in the class and its     *)
(* ancestors nothing is resolved and the constructor gets no arguments;    *)
(* otherwise the constructor gets exactly the type-declared parameters of  *)
(* the initializer (not self, not the return slot) as keyword arguments,   *)
(* each the result of get on the declared type.  The construction fails    *)
(* only when the resolution re-enters itself without end or when the       *)
(* initializer has a parameter without a declared type, which is left out. *)
(***************************************************************************)
C9_ClassConstruction ==
    \A i \in ClassGets :
        /\ ~hist[i].ok =>
               \/ hist[i].err = "RecursionError"
               \/ Unhinted(InitOf(hist[i].arg.n)) # <<>>
        /\ hist[i].ok =>
            LET x == hist[i].arg
                v == hist[i].val
            IN /\ BuiltIn(i, v)
               /\ heap[v].cls = x.n
               /\ heap[v].by = x
               /\ IF DefinesNoInit(x.n)
                  THEN /\ heap[v].kw = <<>>
                       /\ v = hist[i].nxt + 1
                  ELSE /\ Names(heap[v].kw) = Names(InitParams(x.n))
                       /\ \A k \in 1..Len(heap[v].kw) :
                            ResolvesTo(i, InitParams(x.n)[k][2], heap[v].kw[k][2])

\* A class without initializer and a class whose initializer declares two
\* parameters have both been constructed by get, the latter with one parameter
\* type provided by a module and so built by the provider.
C9_Witness ==
    /\ Idle
    /\ \E i, j \in ClassGets :
        /\ hist[i].ok /\ DefinesNoInit(hist[i].arg.n)
        /\ hist[j].ok /\ Len(InitParams(hist[j].arg.n)) = 2
        /\ \E k \in 1..2 : InitParams(hist[j].arg.n)[k][2] \in DOMAIN hist[j].facts

\* The (attribute name, type) entries class n carried when call i began.
DeclaredInjections(i, n) == InjectItemsOf(hist[i].dis, n)

\* The completed get calls that constructed a class carrying injection metadata.
InjectedGets == {i \in ClassGets : hist[i].ok /\ DeclaredInjections(i, hist[i].arg.n) # <<>>}

\* The values attribute name of object o is set to.
AttrValues(o, name) ==
    {heap[o].attrs[k][2] : k \in {k \in 1..Len(heap[o].attrs) : heap[o].attrs[k][1] = name}}

\* T has a registered provider flagged singleton when call i begins.
SingletonProvided(i, T) ==
    IF T \in DOMAIN hist[i].facts THEN FlaggedSingleton(hist[i].facts[T]) ELSE FALSE

(***************************************************************************)
(* C10: the instance get(C) returns for a class C with injection metadata  *)
(* has every declared attribute set, to the result of get on the declared  *)
(* type; when that type has a singleton provider, the attribute is the     *)
(* very instance that every get of the type made under a singleton         *)
(* provider before get(C), and every get of the type after it, returns.    *)
(***************************************************************************)
C10_FieldInjection ==
    \A i \in InjectedGets :
        LET items == DeclaredInjections(i, hist[i].arg.n)
            obj == hist[i].val
        IN \A k \in 1..Len(items) :
            LET name == items[k][1]
                T == items[k][2]
            IN /\ \E v \in AttrValues(obj, name) :
                    /\ AttrValues(obj, name) = {v}
                    /\ ResolvesTo(i, T, v)
               /\ SingletonProvided(i, T) =>
                    \A j \in GetCalls :
                        /\ hist[j].arg = T
                        /\ j > i \/ SingletonProvided(j, T)
                        => hist[j].ok /\ AttrValues(obj, name) = {hist[j].val}

\* A class composing the session-injecting mixin was resolved with the plugin's
\* singleton session provider registered by register_provider, and the session
\* was also asked for before and after.
C10_Witness ==
    /\ Idle
    /\ \E i \in InjectedGets : \E j, k \in GetCalls :
        /\ j < i /\ i < k
        /\ \E r \in ProviderRegistrations : r < j /\ hist[i].facts[hist[j].arg] = hist[r].arg
        /\ \E n \in 1..Len(DeclaredInjections(i, hist[i].arg.n)) :
            /\ DeclaredInjections(i, hist[i].arg.n)[n][2] = hist[j].arg
            /\ SingletonProvided(i, hist[j].arg)
            /\ SingletonProvided(j, hist[j].arg)
        /\ hist[k].arg = hist[j].arg

\* The completed registrations of a persistence plugin instance as a module.
PluginRegistrations ==
    {i \in InstanceRegistrations :
        hist[i].ok /\ heap[hist[i].arg.o].cls = "SqlAlchemyPlugin"}

\* The gets of Engine and of Session made after call i.
EngineGetsAfter(i) == {j \in GetCalls : j > i /\ hist[j].arg = Cls("Engine")}

SessionGetsAfter(i) == {j \in GetCalls : j > i /\ hist[j].arg = Cls("Session")}

\* Once the plugin is registered by call i: every get of Engine and of Session
\* succeeds, repeated gets return one instance, the session is bound to the
\* engine get(Engine) returns, and each plugin provider has run at most once.
PluginSingletons(i) ==
    LET o == hist[i].arg.o
    IN /\ \A j \in EngineGetsAfter(i) \cup SessionGetsAfter(i) : hist[j].ok
       /\ \A j, k \in EngineGetsAfter(i) : hist[j].val = hist[k].val
       /\ \A j, k \in SessionGetsAfter(i) : hist[j].val = hist[k].val
       /\ \A j \in SessionGetsAfter(i) : \A k \in EngineGetsAfter(i) :
            ArgsOfType(hist[j].val, Cls("Engine")) = {hist[k].val}
       /\ Execs(Method(o, "SqlAlchemyPlugin.provide_db_engine")) <= 1
       /\ Execs(Method(o, "SqlAlchemyPlugin.provide_session")) <= 1

ClassInjections ==
    {i \in 1..Len(hist) : hist[i].op = "inject" /\ hist[i].arg.k = "class"}

\* The entries of the injection mapping class n has after call j.
MappingAfter(j, n) ==
    {InjectItemsOf(After(j).dis, n)[k] : k \in 1..Len(InjectItemsOf(After(j).dis, n))}

\* No inject application after call i and up to call j uses the name of call i.
NameNotReused(i, j) ==
    \A k \in (i + 1)..j : hist[k].op = "inject" => hist[k].name # hist[i].name

(***************************************************************************)
(* C12: every inject application to a class succeeds and its (name, type)  *)
(* entry is in the class's injection mapping from then on, whatever        *)
(* applications with other names follow; get on the class sets every       *)
(* attribute of the mapping to an instance of the declared type.           *)
(***************************************************************************)
C12_InjectAccumulates ==
    /\ \A i \in ClassInjections :
        /\ hist[i].ok
        /\ \A j \in i..Len(hist) :
            NameNotReused(i, j) =>
                <<hist[i].name, hist[i].type>> \in MappingAfter(j, hist[i].arg.n)
    /\ \A i \in InjectedGets :
        \A e \in MappingAfter(i - 1, hist[i].arg.n) :
            \E v \in AttrValues(hist[i].val, e[1]) : heap[v].cls = e[2].n

\* Two applications with different names to one class, then get on the class
\* returned an object with both attributes.
C12_Witness ==
    /\ Idle
    /\ \E i, j \in ClassInjections : \E g \in InjectedGets :
        /\ i < j /\ j < g
        /\ hist[i].arg = hist[j].arg /\ hist[g].arg = hist[i].arg
        /\ hist[i].name # hist[j].name
        /\ AttrValues(hist[g].val, hist[i].name) # {}
        /\ AttrValues(hist[g].val, hist[j].name) # {}

\* The completed get calls that took the callable branch.
CallableGets ==
    {i \in GetCalls :
        /\ hist[i].arg.k \in {"func", "method"}
        /\ hist[i].arg \notin DOMAIN hist[i].inst
        /\ hist[i].arg \notin DOMAIN hist[i].facts}

\* The values object o was invoked with for the parameter called name.
ArgValues(o, name) ==
    {heap[o].kw[k][2] : k \in {k \in 1..Len(heap[o].kw) : heap[o].kw[k][1] = name}}

(***************************************************************************)
(* C13: when get invokes a callable that carries injection metadata        *)
(* name -> type, the call succeeds and the argument called name is passed, *)
(* with an instance of the type as its value.                              *)
(***************************************************************************)
C13_InjectedArgumentsPassed ==
    \A i \in CallableGets :
        LET items == DeclaredInjections(i, hist[i].arg.n)
        IN \A k \in 1..Len(items) :
            /\ hist[i].ok
            /\ \E v \in ArgValues(hist[i].val, items[k][1]) : heap[v].cls = items[k][2].n

\* The threads whose get has missed the cache for a type with a singleton
\* provider and has the provider's product in hand, not yet stored.
HoldingProduct ==
    {c \in DOMAIN stack :
        /\ stack[c] # <<>>
        /\ stack[c][1].fn = "get" /\ stack[c][1].pc = "L121"
        /\ FlaggedSingleton(stack[c][1].fact)}

(***************************************************************************)
(* C14: get takes no lock.  Two threads that both missed the cache for a   *)
(* singleton-provided type each hold a product of the provider of their    *)
(* own, so the provider has run at least twice and the two calls return    *)
(* different instances.  Once a get of the type has returned, the cache    *)
(* holds a product of the provider, and so does every caller.              *)
(***************************************************************************)
C14_RacingFirstGets ==
    /\ \A c, d \in HoldingProduct :
        c # d /\ stack[c][1].thing = stack[d][1].thing =>
            /\ stack[c][1].ret # stack[d][1].ret
            /\ heap[stack[c][1].ret].by = stack[c][1].fact
            /\ heap[stack[d][1].ret].by = stack[d][1].fact
            /\ Execs(stack[c][1].fact) >= 2
    /\ \A i \in GetCalls :
        hist[i].arg \in DOMAIN factories =>
            IF FlaggedSingleton(factories[hist[i].arg])
            THEN /\ hist[i].ok
                 /\ hist[i].arg \in DOMAIN instances
                 /\ heap[instances[hist[i].arg]].by = factories[hist[i].arg]
                 /\ heap[hist[i].val].by = factories[hist[i].arg]
            ELSE TRUE

\* Both threads have returned from their first get of the type: the singleton
\* provider has run twice and the two callers have different instances.
C14_Witness ==
    /\ Idle
    /\ \E i, j \in GetCalls :
        /\ i # j
        /\ hist[i].arg = hist[j].arg
        /\ hist[i].arg \in DOMAIN factories
        /\ FlaggedSingleton(factories[hist[i].arg])
        /\ hist[i].ok /\ hist[j].ok
        /\ hist[i].val # hist[j].val
        /\ Execs(factories[hist[i].arg]) = 2

\* The last completed call of the next state, when this step completes one.
Completes(ops) ==
    /\ Len(hist') = Len(hist) + 1
    /\ hist'[Len(hist')].ok
    /\ hist'[Len(hist')].op \in ops

(***************************************************************************)
(* C15: no eviction.  In a sequential run no step removes or changes an    *)
(* entry of the instance cache, no step removes an entry of the factory    *)
(* registry, and the registry changes only in the step that completes a    *)
(* register_provider or register_module call, the cache only during get    *)
(* (or the get a register_module makes for a class).                       *)
(***************************************************************************)
C15_NoEviction ==
    [][ /\ \A T \in DOMAIN instances :
            T \in DOMAIN instances' /\ instances'[T] = instances[T]
        /\ DOMAIN factories \subseteq DOMAIN factories'
        /\ factories' # factories => Completes({"register_provider", "register_module"})
        /\ instances' # instances =>
            \E c \in DOMAIN stack : At(c, "get", "L121") ]_vars

\* A type was cached, then a registration replaced its provider, then the
\* type was asked for again: cache and registry both still have their entry.
C15_Witness ==
    /\ Idle
    /\ \E j \in 1..Len(hist) : \E k \in GetCalls :
        /\ hist[j].op \in {"register_provider", "register_module"}
        /\ j < k
        /\ hist[k].arg \in DOMAIN hist[j].inst
        /\ hist[k].arg \in DOMAIN hist[j].facts
        /\ After(j).facts[hist[k].arg] # hist[j].facts[hist[k].arg]
        /\ hist[k].arg \in DOMAIN instances
        /\ hist[k].arg \in DOMAIN factories

\* What get on t resolves next, in the state call i found: nothing when t is
\* cached, else its provider, else for a class the types of its initializer's
\* parameters and of its injected attributes, else for a callable the types of
\* its parameters.
Deps(i, t) ==
    IF t \in DOMAIN hist[i].inst THEN {}
    ELSE IF t \in DOMAIN hist[i].facts THEN {hist[i].facts[t]}
    ELSE IF t.k = "class"
         THEN {InitParams(t.n)[k][2] : k \in 1..Len(InitParams(t.n))}
              \cup {DeclaredInjections(i, t.n)[k][2] :
                        k \in 1..Len(DeclaredInjections(i, t.n))}
    ELSE IF t.k \in {"func", "method"}
         THEN {Params(t)[k][2] : k \in 1..Len(Params(t))}
    ELSE {}

\* Everything reachable from the things of S along Deps.
RECURSIVE Reachable(_, _)
Reachable(i, S) ==
    LET N == S \cup UNION {Deps(i, t) : t \in S}
    IN IF N = S THEN S ELSE Reachable(i, N)

\* The dependency graph reachable from x contains a cycle.
Cyclic(i, x) ==
    \E t \in Reachable(i, {x}) : t \in Reachable(i, Deps(i, t))

\* The positions of thread c's stack that hold a get for thing t.
GetFramesFor(c, t) ==
    {k \in 1..Len(stack[c]) : stack[c][k].fn = "get" /\ stack[c][k].thing = t}

\* A get whose own thing is being resolved again further up the stack.
Reentered(c) ==
    {k \in 1..Len(stack[c]) :
        /\ stack[c][k].fn = "get"
        /\ \E j \in GetFramesFor(c, stack[c][k].thing) : j > k}

(***************************************************************************)
(* C16: a get that has begun always comes to an end.  When the dependency  *)
(* graph reachable from its argument has no cycle, the end is not the      *)
(* exhaustion of the stack.  When it has a cycle, get returns no value:    *)
(* nothing detects the cycle, a get that is reentered for its own thing    *)
(* never returns, and the call ends only when the stack is exhausted.      *)
(***************************************************************************)
C16_TerminatesUnlessCyclic ==
    /\ [](\A i \in GetCalls :
            IF Cyclic(i, hist[i].arg)
            THEN ~hist[i].ok /\ hist[i].err = "RecursionError"
            ELSE hist[i].err # "RecursionError")
    /\ [][\A c \in DOMAIN stack : \A k \in Reentered(c) :
            \/ Len(stack'[c]) >= k /\ stack'[c][k].thing = stack[c][k].thing
            \/ /\ stack'[c] = <<>>
               /\ hist'[Len(hist')].err = "RecursionError"]_vars
    /\ (~Idle) ~> Idle

\* A get on a class whose constructor dependencies form a cycle has used up
\* the stack with the same get pending several times.
C16_Witness ==
    \E c \in DOMAIN stack :
        /\ Len(stack[c]) = MaxDepth
        /\ Cardinality(GetFramesFor(c, stack[c][1].thing)) >= 3
        /\ \E i \in GetCalls : ~Cyclic(i, hist[i].arg) /\ hist[i].ok

\* The completed successful registrations, and the provider call i registered
\* for type T: the function handed to register_provider, or the module's bound
\* provider method for T whose name sorts last.
Registrations == {i \in ProviderRegistrations \cup ModuleRegistrations : hist[i].ok}

RegisteredBy(i, T) ==
    IF hist[i].op = "register_provider"
    THEN {f \in {hist[i].arg} : ProvidedType(f) = T}
    ELSE UNION {{f \in ProviderMethods(o) :
                    /\ ProvidedType(f) = T
                    /\ \A g \in ProviderMethods(o) :
                        ProvidedType(g) = T => Rank(g.n) <= Rank(f.n)} : o \in ModulesOf(i)}

(***************************************************************************)
(* C17: last registered wins.  After register_module the registry maps     *)
(* each type its module provides to the provider method of that type whose *)
(* name sorts last; at any time the registry maps a type to the provider   *)
(* that the most recent registration for the type registered.              *)
(***************************************************************************)
C17_LastRegisteredWins ==
    /\ \A i \in Registrations : \A T \in Types :
        RegisteredBy(i, T) # {} =>
            T \in DOMAIN After(i).facts /\ After(i).facts[T] \in RegisteredBy(i, T)
    /\ \A T \in Types : \A i \in Registrations :
        /\ RegisteredBy(i, T) # {}
        /\ \A j \in Registrations : j > i => RegisteredBy(j, T) = {}
        => T \in DOMAIN factories /\ factories[T] \in RegisteredBy(i, T)

\* A module with two provider methods of one type, the one that sorts last
\* defined first, was registered after another provider of the type, and a
\* third registration for the type followed.
C17_Witness ==
    /\ Idle
    /\ \E i, j, k \in Registrations : \E T \in Types :
        /\ i < j /\ j < k
        /\ RegisteredBy(i, T) # {} /\ RegisteredBy(k, T) # {}
        /\ hist[j].op = "register_module"
        /\ \E o \in ModulesOf(j) :
            Cardinality({f \in ProviderMethods(o) : ProvidedType(f) = T}) = 2

\* The registrations that gave type T a provider other than the one it had,
\* at a time when T had a cached instance.
Reregistrations(T) ==
    {j \in Registrations :
        /\ RegisteredBy(j, T) # {}
        /\ T \in DOMAIN hist[j].inst
        /\ T \in DOMAIN hist[j].facts
        /\ hist[j].facts[T] \notin RegisteredBy(j, T)}

(***************************************************************************)
(* C18: registering a different provider for a type that has a cached      *)
(* instance replaces the registry entry and leaves the cache as it is;     *)
(* every later get of the type returns the cached instance, which a        *)
(* singleton provider of the type produced before, and invokes nothing.    *)
(***************************************************************************)
C18_StaleCacheAfterReregistration ==
    \A T \in Types : \A j \in Reregistrations(T) :
        /\ After(j).facts[T] \in RegisteredBy(j, T)
        /\ After(j).inst = hist[j].inst
        /\ hist[j].inst[T] \in SingletonProducts(T)
        /\ hist[j].inst[T] <= hist[j].nxt
        /\ \A k \in GetCalls :
            k > j /\ hist[k].arg = T =>
                /\ hist[k].ok
                /\ hist[k].val = hist[j].inst[T]
                /\ After(k).nxt = hist[k].nxt

\* A type was resolved under a singleton provider, a non-singleton provider
\* was registered for it, and the type was asked for again.
C18_Witness ==
    /\ Idle
    /\ \E T \in Types : \E j \in Reregistrations(T) : \E k \in GetCalls :
        /\ k > j /\ hist[k].arg = T
        /\ ~FlaggedSingleton(After(j).facts[T])

\* The classes that are neither the class n nor derived from it: its bases,
\* its siblings and unrelated classes.
NotDerivedFrom(n) ==
    {m \in ClassNames : \A k \in 1..Len(MRO(m)) : MRO(m)[k] # n}

(***************************************************************************)
(* C19: inject applied to a class changes the injection mapping of that    *)
(* class (and of what derives from it) only: every other class, a base or  *)
(* a sibling in particular, has the mapping it had, and an instance that   *)
(* get builds of such a class afterwards does not have the attribute.      *)
(***************************************************************************)
C19_InjectChangesOnlyTarget ==
    \A i \in ClassInjections :
        \A m \in NotDerivedFrom(hist[i].arg.n) :
            /\ InjectItemsOf(After(i).dis, m) = InjectItemsOf(hist[i].dis, m)
            /\ \A k \in ClassGets :
                /\ k > i /\ hist[k].ok /\ hist[k].arg.n = m
                /\ \A e \in MappingAfter(i - 1, m) : e[1] # hist[i].name
                => AttrValues(hist[k].val, hist[i].name) = {}

\* The completed get calls on a type with a singleton provider and no cached
\* instance, and those of them that failed.
ProviderGets ==
    {i \in GetCalls :
        /\ hist[i].arg \notin DOMAIN hist[i].inst
        /\ hist[i].arg \in DOMAIN hist[i].facts
        /\ FlaggedSingleton(hist[i].facts[hist[i].arg])}

FailedGets == {i \in ProviderGets : ~hist[i].ok}

\* The provider cannot be invoked by hints alone, or needs a class that cannot
\* be constructed so.
Unresolvable(f) ==
    \/ Unhinted(f.n) # <<>>
    \/ \E k \in 1..Len(Params(f)) : Unhinted(InitOf(Params(f)[k][2].n)) # <<>>

\* The types cached during call i.
CachedIn(i) == DOMAIN After(i).inst \ DOMAIN hist[i].inst

(***************************************************************************)
(* C20: a get on a singleton-provided type whose provider cannot be        *)
(* invoked, or one of whose dependencies cannot be resolved, fails; the    *)
(* failed call caches nothing for the type and leaves the registry as it   *)
(* was, so the next get of the type finds no cached instance and resolves  *)
(* through the registry again; what the failed call did cache (singleton   *)
(* dependencies resolved before the failure) stays cached and its provider *)
(* is not invoked by any later get of the type.                            *)
(***************************************************************************)
C20_FailedGetCachesNothing ==
    /\ \A i \in ProviderGets :
        Unresolvable(hist[i].facts[hist[i].arg]) => i \in FailedGets
    /\ \A i \in FailedGets :
        LET T == hist[i].arg
        IN  /\ T \notin DOMAIN After(i).inst
            /\ After(i).facts = hist[i].facts
            /\ \A k \in GetCalls :
                k > i /\ hist[k].arg = T =>
                    /\ (\A j \in GetCalls : i < j /\ j < k => hist[j].arg # T) =>
                        /\ T \notin DOMAIN hist[k].inst
                        /\ hist[k].ok => /\ BuiltIn(k, hist[k].val)
                                         /\ heap[hist[k].val].by = hist[k].facts[T]
                    /\ \A S \in CachedIn(i) :
                        /\ S \in DOMAIN hist[k].inst
                        /\ hist[k].inst[S] = After(i).inst[S]
                        /\ \A o \in Built :
                            BuiltIn(k, o) => heap[o].by # heap[After(i).inst[S]].by

\* A get failed after it had cached a singleton dependency; the type was asked
\* for again and the call failed again.
C20_Witness ==
    /\ Idle
    /\ \E i \in FailedGets : \E k \in GetCalls :
        /\ k > i /\ hist[k].arg = hist[i].arg
        /\ CachedIn(i) # {}
        /\ ~hist[k].ok

====
